---- MODULE Spec2Model ----
(***************************************************************************)
(* Genetic-algorithm knapsack solver of Project_1/src/main.rs:             *)
(* Actor::fit, Population::new, calculate_chance, roulette_selection,      *)
(* apply_crossover, mutate_population and run_evolution.                   *)
(*                                                                         *)
(* Conventions.                                                            *)
(*  - A bitstring is a sequence of BOOLEAN; the source's index i is the    *)
(*    model's index i + 1.                                                 *)
(*  - A data row is the tuple <<i, p, w, x>>; row[2] is the source's .1    *)
(*    (value p) and row[3] is the source's .2 (weight w).                  *)
(*  - usize is modelled with UsizeBits bits; arithmetic that leaves the    *)
(*    range panics when the build has overflow checks (debug profile) and  *)
(*    wraps modulo 2^UsizeBits when it has none (release profile).         *)
(*  - f64 values are modelled as exact rationals: a probability is a       *)
(*    numerator over the common denominator total_fit, NaN is the case     *)
(*    total_fit = 0, and the mutation rate is mutation_rate / RateDen.     *)
(*  - Every draw from rand::thread_rng() is a nondeterministic choice.     *)
(*  - A panic ends the run: pc = "panic" and err names the panic.          *)
(***************************************************************************)
EXTENDS Integers, Sequences, FiniteSets

\* Bounds of the model.
MaxSize == 3
MaxLen == 2
MaxItems == 2
MaxValue == 1
MaxWeight == 1
MaxSpace == 1
MaxGenerations == 2
MaxRate == 3
RateDen == 2
UsizeBits == 16
ReplayMaxSize == 2
ReplayMaxLen == 1

VARIABLES
    overflow_checks,   \* build profile: TRUE = overflow checks on (debug)
    size,              \* Population.size
    actors,            \* Population.actors: sequence of bitstrings
    mutation_rate,     \* Population.mutation_rate, in units of 1/RateDen
    data,              \* Population.data
    bitstring_length,  \* the bitstring_length argument of Population::new
    total_space,       \* run_evolution's total_space
    generations,       \* run_evolution's generations
    gen,               \* number of completed iterations of the for loop
    best_fitness_history,
    avg_fitness_history,   \* each entry <<sum, len>> stands for sum / len
    worst_fitness_history,
    pc,                \* position in main / run_evolution
    err,               \* the panic that ended the run, or "none"
    parents,           \* self.actors on entry to apply_crossover, kept until
                       \* mutate_population runs
    replay             \* the earlier run of the same program with the same
                       \* arguments, when the program is run twice

vars == <<overflow_checks, size, actors, mutation_rate, data, bitstring_length,
          total_space, generations, gen, best_fitness_history,
          avg_fitness_history, worst_fitness_history, pc, err, parents,
          replay>>

----------------------------------------------------------------------------
\* usize arithmetic

UsizeMod == 2 ^ UsizeBits

UsizeMax == UsizeMod - 1

Ok(v) == [ok |-> TRUE, val |-> v, err |-> "none"]

Panic(e) == [ok |-> FALSE, val |-> 0, err |-> e]

\* The result of a usize +, - or * whose mathematical value is x.
Arith(x, checks) ==
    IF x >= 0 /\ x <= UsizeMax THEN Ok(x)
    ELSE IF checks THEN Panic("arithmetic_overflow")
    ELSE Ok(x % UsizeMod)

----------------------------------------------------------------------------
\* Actor::fit

\* The iterator chain enumerate / filter_map / sum over the bitstring from
\* index i on, with acc the sum so far; col selects the tuple field.
RECURSIVE SumSelected(_, _, _, _, _, _)
SumSelected(bitstring, rows, col, i, acc, checks) ==
    IF i > Len(bitstring) THEN Ok(acc)
    ELSE IF ~bitstring[i] THEN SumSelected(bitstring, rows, col, i + 1, acc, checks)
    ELSE IF i > Len(rows) THEN Panic("index_out_of_bounds")
    ELSE LET s == Arith(acc + rows[i][col], checks)
         IN IF ~s.ok THEN s
            ELSE SumSelected(bitstring, rows, col, i + 1, s.val, checks)

\* The penalised branch: total_fitness - distance_metric * 2.
Penalized(total_fitness, max_size, checks) ==
    LET twice == Arith(max_size * 2, checks)
    IN IF ~twice.ok THEN twice
       ELSE Arith(total_fitness - twice.val, checks)

Fit(bitstring, rows, max_size, checks) ==
    LET total_fitness == SumSelected(bitstring, rows, 2, 1, 0, checks)
        sum_w == SumSelected(bitstring, rows, 3, 1, 0, checks)
    IN IF ~total_fitness.ok THEN total_fitness
       ELSE IF ~sum_w.ok THEN sum_w
       ELSE IF sum_w.val > max_size
            THEN Penalized(total_fitness.val, max_size, checks)
            ELSE total_fitness

\* actor.fit for every actor in order; the first panic ends the evaluation.
RECURSIVE FitAll(_, _, _, _, _, _)
FitAll(acts, rows, max_size, checks, i, acc) ==
    IF i > Len(acts) THEN [ok |-> TRUE, val |-> acc, err |-> "none"]
    ELSE LET f == Fit(acts[i], rows, max_size, checks)
         IN IF ~f.ok THEN [ok |-> FALSE, val |-> << >>, err |-> f.err]
            ELSE FitAll(acts, rows, max_size, checks, i + 1, Append(acc, f.val))

----------------------------------------------------------------------------
\* Inputs

Bitstrings(l) == [1..l -> BOOLEAN]

\* The rows read_csv can produce, restricted to small values and to items
\* that weigh something; the fields i and x are never read and are fixed.
Rows == {<<0, p, w, 0>> : p \in 0..MaxValue, w \in 1..MaxWeight}

Datasets == UNION {[1..n -> Rows] : n \in 0..MaxItems}

\* Mutation rates -1/RateDen, 0, ..., MaxRate/RateDen.
Rates == (0 - 1)..MaxRate

\* phase "off": the program is run once; "first": the first of two runs is
\* under way; "second": the first run returned and its arguments and
\* histories are kept here.
NoReplay(phase) == [phase |-> phase, args |-> << >>, best |-> << >>,
                    avg |-> << >>, worst |-> << >>]

InitRun(phase) ==
    /\ overflow_checks \in BOOLEAN
    /\ size = 0
    /\ actors = << >>
    /\ mutation_rate = 0
    /\ data = << >>
    /\ bitstring_length = 0
    /\ total_space = 0
    /\ generations = 0
    /\ gen = 0
    /\ best_fitness_history = << >>
    /\ avg_fitness_history = << >>
    /\ worst_fitness_history = << >>
    /\ pc = "main"
    /\ err = "none"
    /\ parents = << >>
    /\ replay = NoReplay(phase)

Init == InitRun("off")

----------------------------------------------------------------------------
\* Population::new

New(s, l, rate, rows) ==
    /\ pc = "main"
    /\ replay.phase # "off" => s <= ReplayMaxSize /\ l <= ReplayMaxLen
    /\ replay.phase = "second" => <<s, l, rate, rows>> = SubSeq(replay.args, 1, 4)
    /\ size' = s
    /\ actors' \in [1..s -> Bitstrings(l)]
    /\ mutation_rate' = rate
    /\ data' = rows
    /\ bitstring_length' = l
    /\ pc' = "constructed"
    /\ UNCHANGED <<overflow_checks, total_space, generations, gen,
                   best_fitness_history, avg_fitness_history,
                   worst_fitness_history, err, parents, replay>>

----------------------------------------------------------------------------
\* Helpers on sequences of numbers

RECURSIVE SeqSum(_)
SeqSum(fs) == IF fs = << >> THEN 0 ELSE fs[1] + SeqSum(Tail(fs))

SeqMax(fs) == CHOOSE m \in {fs[i] : i \in 1..Len(fs)} :
                 \A i \in 1..Len(fs) : fs[i] <= m

SeqMin(fs) == CHOOSE m \in {fs[i] : i \in 1..Len(fs)} :
                 \A i \in 1..Len(fs) : m <= fs[i]

\* A panic: the run ends, nothing else changes.
PanicWith(e) ==
    /\ pc' = "panic"
    /\ err' = e
    /\ UNCHANGED <<overflow_checks, size, actors, mutation_rate, data,
                   bitstring_length, total_space, generations, gen,
                   best_fitness_history, avg_fitness_history,
                   worst_fitness_history, parents, replay>>

----------------------------------------------------------------------------
\* Population::calculate_chance and Population::roulette_selection

\* calculate_chance: prob[i] = fitness / total_fit. The result keeps the
\* numerators (prob) and the denominator (total_fit); total_fit = 0 makes
\* every entry 0.0 / 0.0 = NaN.
CalculateChance(acts, rows, total_space_, checks) ==
    LET fs == FitAll(acts, rows, total_space_, checks, 1, << >>)
    IN IF ~fs.ok THEN [ok |-> FALSE, prob |-> << >>, total_fit |-> 0, err |-> fs.err]
       ELSE [ok |-> TRUE, prob |-> fs.val, total_fit |-> SeqSum(fs.val),
             err |-> "none"]

\* cumulative_prob[i] = cumulative_prob[i - 1] + prob[i], as numerators.
CumulativeProb(prob) == [i \in 1..Len(prob) |-> SeqSum(SubSeq(prob, 1, i))]

\* cumulative_prob.iter().position(|&c| c >= rand_val), for
\* rand_val = r / total_fit: the source's index plus one, or 0 for None.
\* Every comparison with NaN is false.
Position(cumulative_prob, total_fit, r) ==
    LET hits == {i \in 1..Len(cumulative_prob) :
                    total_fit # 0 /\ cumulative_prob[i] >= r}
    IN IF hits = {} THEN 0
       ELSE CHOOSE i \in hits : \A j \in hits : i <= j

\* Representatives r of rand_val * total_fit for rand_val in [0, 1): 0.0
\* itself, and one value for each interval between two consecutive
\* cumulative sums (all rand_val of such an interval select the same index).
RandVals(cumulative_prob) ==
    {0} \cup {cumulative_prob[i] : i \in 1..Len(cumulative_prob)}

\* A selection that makes one draw too few.
NewActorsOneShort(acts, selected) ==
    [n \in 1..(Len(selected) - 1) |-> acts[selected[n]]]

\* new_actors after the loop of the draws: a clone of the selected actor for
\* each draw, in order.
NewActors(acts, selected) == [n \in 1..Len(selected) |-> acts[selected[n]]]

\* A loop that stops one generation early.
LoopStopsEarly(g, generations_) == g + 1 < generations_

\* The condition of "for _ in 0..generations" after g iterations.
LoopContinues(g, generations_) == g < generations_

\* chance and cumulative_prob are the source's locals, each computed once;
\* selected[n] is selected_actor_index of the n-th draw (plus one), for every
\* choice rand_val of the draws.
RouletteSelection ==
    /\ pc = "loop"
    /\ LoopContinues(gen, generations)
    /\ \E chance \in {CalculateChance(actors, data, total_space, overflow_checks)} :
          IF ~chance.ok THEN PanicWith(chance.err)
          ELSE IF size = 0 THEN PanicWith("cumulative_prob_index_out_of_bounds")
          ELSE \E cumulative_prob \in {CumulativeProb(chance.prob)} :
               \E selected \in
                     {[n \in 1..size |->
                         Position(cumulative_prob, chance.total_fit, rand_val[n])] :
                      rand_val \in [1..size -> RandVals(cumulative_prob)]} :
                  IF \E n \in 1..size : selected[n] = 0
                  THEN PanicWith("position_unwrap_on_none")
                  ELSE /\ actors' = NewActors(actors, selected)
                       /\ pc' = "crossover"
                       /\ UNCHANGED <<overflow_checks, size, mutation_rate,
                             data, bitstring_length, total_space,
                             generations, gen, best_fitness_history,
                             avg_fitness_history, worst_fitness_history,
                             err, parents, replay>>

----------------------------------------------------------------------------
\* Population::apply_crossover

\* A swap loop that starts one position late.
SwapFromNext(a, b, crossover_point) ==
    [j \in 1..Len(a) |-> IF j - 1 > crossover_point THEN b[j] ELSE a[j]]

\* The loop "for j in crossover_point..len { swap(a[j], b[j]) }" seen from
\* bitstring a: the bits of b from source index crossover_point on.
SwapFrom(a, b, crossover_point) ==
    [j \in 1..Len(a) |-> IF j - 1 >= crossover_point THEN b[j] ELSE a[j]]

\* The population after the loop over i = 0, 2, 4, ..., where point[i] is the
\* crossover point drawn for the pair (i, i + 1).
CrossoverWith(acts, point) ==
    [n \in 1..Len(acts) |->
        LET i == (n - 1) - ((n - 1) % 2)
        IN IF i + 1 < Len(acts)
           THEN SwapFrom(acts[n], acts[IF n - 1 = i THEN n + 1 ELSE n - 1], point[i])
           ELSE acts[n]]

\* The indices i of the loop for which the body's condition holds.
PairStarts(acts) == {i \in 0..(Len(acts) - 1) : i % 2 = 0 /\ i + 1 < Len(acts)}

ApplyCrossover ==
    /\ pc = "crossover"
    /\ IF PairStarts(actors) # {} /\ Len(actors[1]) = 0
       THEN PanicWith("gen_range_empty")
       ELSE \E point \in [PairStarts(actors) -> 0..(Len(actors[1]) - 1)] :
               /\ actors' = CrossoverWith(actors, point)
               /\ parents' = actors
               /\ pc' = "mutate"
               /\ UNCHANGED <<overflow_checks, size, mutation_rate, data,
                     bitstring_length, total_space, generations, gen,
                     best_fitness_history, avg_fitness_history,
                     worst_fitness_history, err, replay>>

----------------------------------------------------------------------------
\* Population::mutate_population

\* Whether gen_bool(rate / RateDen) panics: p is outside [0, 1].
GenBoolPanics(rate) == rate < 0 \/ rate > RateDen

\* A gen_bool that treats p = 1 like any other probability.
GenBoolNoCertainty(rate) == IF rate = 0 THEN {FALSE} ELSE BOOLEAN

\* The values gen_bool(rate / RateDen) can return: never true for p = 0,
\* always true for p = 1.
GenBool(rate) ==
    IF rate = 0 THEN {FALSE}
    ELSE IF rate = RateDen THEN {TRUE}
    ELSE BOOLEAN

\* The population after flipping the bits for which gen_bool returned true.
MutateWith(acts, flip) ==
    [n \in 1..Len(acts) |->
        [j \in 1..Len(acts[n]) |-> IF flip[n][j] THEN ~acts[n][j] ELSE acts[n][j]]]

MutatePopulation ==
    /\ pc = "mutate"
    /\ IF (\E n \in 1..Len(actors) : Len(actors[n]) > 0) /\ GenBoolPanics(mutation_rate)
       THEN PanicWith("gen_bool_p_out_of_range")
       ELSE \E flip \in [1..Len(actors) -> [1..bitstring_length -> GenBool(mutation_rate)]] :
               /\ actors' = MutateWith(actors, flip)
               /\ parents' = << >>
               /\ pc' = "record"
               /\ UNCHANGED <<overflow_checks, size, mutation_rate, data,
                     bitstring_length, total_space, generations, gen,
                     best_fitness_history, avg_fitness_history,
                     worst_fitness_history, err, replay>>

----------------------------------------------------------------------------
\* Population::run_evolution

RunEvolution(total_space_, generations_) ==
    /\ pc = "constructed"
    /\ replay.phase = "second" =>
          <<total_space_, generations_>> = SubSeq(replay.args, 5, 6)
    /\ total_space' = total_space_
    /\ generations' = generations_
    /\ gen' = 0
    /\ best_fitness_history' = << >>
    /\ avg_fitness_history' = << >>
    /\ worst_fitness_history' = << >>
    /\ pc' = "loop"
    /\ UNCHANGED <<overflow_checks, size, actors, mutation_rate, data,
                   bitstring_length, err, parents, replay>>

\* best = max, worst = min and avg = sum / len of the fitnesses; avg is kept
\* as <<sum, len>>.
BestOf(fitnesses) == SeqMax(fitnesses)

WorstOf(fitnesses) == SeqMin(fitnesses)

AvgOf(sum, fitnesses) == <<sum, Len(fitnesses)>>

\* Lines 159-169: evaluate every actor and push best, average and worst.
RecordFitness ==
    /\ pc = "record"
    /\ \E fitnesses \in {FitAll(actors, data, total_space, overflow_checks, 1, << >>)} :
          IF ~fitnesses.ok THEN PanicWith(fitnesses.err)
          ELSE IF fitnesses.val = << >> THEN PanicWith("max_unwrap_on_none")
          ELSE \E sum \in {Arith(SeqSum(fitnesses.val), overflow_checks)} :
                  IF ~sum.ok THEN PanicWith(sum.err)
                  ELSE /\ best_fitness_history' =
                             Append(best_fitness_history, BestOf(fitnesses.val))
                       /\ avg_fitness_history' =
                             Append(avg_fitness_history, AvgOf(sum.val, fitnesses.val))
                       /\ worst_fitness_history' =
                             Append(worst_fitness_history, WorstOf(fitnesses.val))
                       /\ gen' = gen + 1
                       /\ pc' = "loop"
                       /\ UNCHANGED <<overflow_checks, size, actors, mutation_rate,
                             data, bitstring_length, total_space, generations,
                             err, parents, replay>>

\* The loop is over: run_evolution returns the three histories.
Return ==
    /\ pc = "loop"
    /\ ~LoopContinues(gen, generations)
    /\ pc' = "done"
    /\ UNCHANGED <<overflow_checks, size, actors, mutation_rate, data,
                   bitstring_length, total_space, generations, gen,
                   best_fitness_history, avg_fitness_history,
                   worst_fitness_history, err, parents, replay>>

----------------------------------------------------------------------------
\* The program run once

Next ==
    \/ \E s \in 0..MaxSize, l \in 0..MaxLen, rate \in Rates, rows \in Datasets :
          New(s, l, rate, rows)
    \/ \E total_space_ \in 0..MaxSpace, generations_ \in 0..MaxGenerations :
          RunEvolution(total_space_, generations_)
    \/ RouletteSelection
    \/ ApplyCrossover
    \/ MutatePopulation
    \/ RecordFitness
    \/ Return

Spec == Init /\ [][Next]_vars

----------------------------------------------------------------------------
\* The program run twice with the same arguments, by the same build: when the
\* first run has returned, its arguments and histories are kept and the
\* program starts again.

Restart ==
    /\ pc = "done"
    /\ replay.phase = "first"
    /\ replay' = [phase |-> "second",
                  args |-> <<size, bitstring_length, mutation_rate, data,
                             total_space, generations>>,
                  best |-> best_fitness_history,
                  avg |-> avg_fitness_history,
                  worst |-> worst_fitness_history]
    /\ size' = 0
    /\ actors' = << >>
    /\ mutation_rate' = 0
    /\ data' = << >>
    /\ bitstring_length' = 0
    /\ total_space' = 0
    /\ generations' = 0
    /\ gen' = 0
    /\ best_fitness_history' = << >>
    /\ avg_fitness_history' = << >>
    /\ worst_fitness_history' = << >>
    /\ pc' = "main"
    /\ parents' = << >>
    /\ UNCHANGED <<overflow_checks, err>>

NextTwoRuns == Next \/ Restart

SpecTwoRuns == InitRun("first") /\ [][NextTwoRuns]_vars

----------------------------------------------------------------------------
\* Properties

\* run_evolution has been entered: total_space and generations are set.
Running == pc \notin {"main", "constructed"}

\* Population size 0, bit length 0, or a mutation rate outside [0, 1].
InvalidConfiguration ==
    size = 0 \/ bitstring_length = 0 \/ mutation_rate < 0 \/ mutation_rate > RateDen

\* The arguments are those of a run the specification allows: a valid
\* configuration whose bit length is the number of rows of the dataset.
WellFormedRun ==
    Running /\ ~InvalidConfiguration /\ bitstring_length = Len(data)

\* The sum of the values p of all rows.
RECURSIVE SumOfValues(_)
SumOfValues(rows) ==
    IF rows = << >> THEN 0 ELSE rows[1][2] + SumOfValues(Tail(rows))

\* The next step calls fit on every actor of the population (in
\* calculate_chance, or in the loop body of run_evolution).
FitIsCalled == (pc = "loop" /\ gen < generations) \/ pc = "record"

\* C1: for every candidate whose length equals the dataset size, fit returns
\* a fitness f with 0 <= f <= sum of all item values (it neither fails nor
\* wraps around when the selected weight exceeds the capacity).
C1_FitnessWithinBounds ==
    (WellFormedRun /\ FitIsCalled) =>
       \A n \in 1..Len(actors) :
          Len(actors[n]) = Len(data) =>
             LET f == Fit(actors[n], data, total_space, overflow_checks)
             IN f.ok /\ 0 <= f.val /\ f.val <= SumOfValues(data)

\* C2: when the total fitness of the population is 0 as roulette_selection
\* is invoked, the selection does not abort the process (it reports the
\* degenerate fitness to its caller, who goes on).
C2_DegenerateFitnessDoesNotAbort ==
    ~ /\ WellFormedRun
      /\ pc = "panic"
      /\ err = "position_unwrap_on_none"
      /\ CalculateChance(actors, data, total_space, overflow_checks).total_fit = 0

\* C3: after every completed roulette_selection and after every completed
\* generation step the population holds exactly size candidates, as many as
\* at construction, each of the bit length given at construction.
C3_SizeAndLengthPreserved ==
    pc \in {"constructed", "loop", "crossover", "mutate", "record", "done"} =>
       /\ Len(actors) = size
       /\ \A n \in 1..Len(actors) : Len(actors[n]) = bitstring_length

\* A population of three 2-bit candidates after two completed generations.
C3_Witness ==
    /\ pc = "loop"
    /\ gen = 2
    /\ size = 3
    /\ Len(actors) = 3
    /\ bitstring_length = 2

\* C4: a population of size 0, of bit length 0 or with a mutation rate
\* outside [0, 1] is rejected before any generation step: no such
\* configuration gets past selection, and none runs to a normal return.
C4_InvalidConfigurationRejected ==
    (pc # "main" /\ InvalidConfiguration) =>
       pc \notin {"crossover", "mutate", "record", "done"}

\* C5: no population whose candidates' bit length differs from the number
\* of rows of the dataset is ever created.
C5_LengthMatchesDataset ==
    pc # "main" => bitstring_length = Len(data)

\* C6: apply_crossover leaves the number of candidates unchanged and, for
\* each pair (i, i + 1) with i even, there is one point k, 0 <= k < bit
\* length, such that the two candidates have exchanged their bits at the
\* positions >= k and kept the bits at the positions < k; with an odd
\* number of candidates the last one is unchanged.
C6_CrossoverSwapsTails ==
    pc = "mutate" =>
       /\ Len(actors) = Len(parents)
       /\ \A i \in 0..(Len(parents) - 2) :
             i % 2 = 0 =>
                \E k \in 0..(bitstring_length - 1) :
                   \A j \in 0..(bitstring_length - 1) :
                      /\ j < k => /\ actors[i + 1][j + 1] = parents[i + 1][j + 1]
                                  /\ actors[i + 2][j + 1] = parents[i + 2][j + 1]
                      /\ j >= k => /\ actors[i + 1][j + 1] = parents[i + 2][j + 1]
                                   /\ actors[i + 2][j + 1] = parents[i + 1][j + 1]
       /\ Len(parents) % 2 = 1 =>
             actors[Len(actors)] = parents[Len(parents)]

\* Parents 10 and 01 crossed at point 1 have become 11 and 00 (the 2-bit
\* form of 1100, 0011 -> 1111, 0000), and the third candidate is as it was.
C6_Witness ==
    /\ pc = "mutate"
    /\ parents = << <<TRUE, FALSE>>, <<FALSE, TRUE>>, <<TRUE, FALSE>> >>
    /\ actors = << <<TRUE, TRUE>>, <<FALSE, FALSE>>, <<TRUE, FALSE>> >>

\* C7: a completed mutate_population leaves every bit unchanged when the
\* mutation rate is 0 and flips every bit when it is 1, and in both cases
\* keeps the number of candidates and their bit lengths.
C7_MutationRateZeroAndOne ==
    [][(pc = "mutate" /\ pc' = "record"
         /\ (mutation_rate = 0 \/ mutation_rate = RateDen)) =>
          /\ Len(actors') = Len(actors)
          /\ \A n \in 1..Len(actors) :
                /\ Len(actors'[n]) = Len(actors[n])
                /\ \A j \in 1..Len(actors[n]) :
                      actors'[n][j] = IF mutation_rate = 0 THEN actors[n][j]
                                      ELSE ~actors[n][j]]_vars

\* mutate_population has run with mutation rate 1 on three 2-bit candidates.
C7_Witness ==
    /\ pc = "record"
    /\ mutation_rate = RateDen
    /\ Len(actors) = 3
    /\ bitstring_length = 2

\* C8: run_evolution appends one entry to each history per generation and
\* stops only after generations of them: while it runs each history has
\* one entry per completed generation, when it returns each has exactly
\* generations entries, and with generations = 0 it returns empty
\* histories without failing, whatever the population.
C8_ExactlyGenerations ==
    Running =>
       /\ pc # "panic" =>
             /\ Len(best_fitness_history) = gen
             /\ Len(avg_fitness_history) = gen
             /\ Len(worst_fitness_history) = gen
             /\ gen <= generations
       /\ pc = "done" => gen = generations
       /\ generations = 0 => pc \in {"loop", "done"}

\* run_evolution has returned after two generations.
C8_Witness ==
    /\ pc = "done"
    /\ generations = 2
    /\ Len(best_fitness_history) = 2

\* C9: two runs of the program with identical arguments return identical
\* best, average and worst histories.
C9_RunsAgree ==
    (WellFormedRun /\ pc = "done" /\ replay.phase = "second") =>
       /\ best_fitness_history = replay.best
       /\ avg_fitness_history = replay.avg
       /\ worst_fitness_history = replay.worst

\* The fitnesses fit returns for the current population, when none fails.
FitnessesNow == FitAll(actors, data, total_space, overflow_checks, 1, << >>).val

\* C10: in every generation selection, crossover, mutation and recording
\* follow each other in this order, none skipped, and the entry recorded is
\* computed from the population left by the mutation: best is the maximum,
\* worst the minimum and average the mean of its fitnesses.
C10_OrderAndRecordedStatistics ==
    [][/\ pc = "loop" => pc' \in {"crossover", "done", "panic"}
       /\ pc = "crossover" => pc' \in {"mutate", "panic"}
       /\ pc = "mutate" => pc' \in {"record", "panic"}
       /\ pc = "record" => pc' \in {"loop", "panic"}
       /\ (pc # "record" /\ pc' \in {"crossover", "mutate", "loop", "done"}) =>
             /\ best_fitness_history' = best_fitness_history
             /\ avg_fitness_history' = avg_fitness_history
             /\ worst_fitness_history' = worst_fitness_history
       /\ (pc = "record" /\ pc' = "loop") =>
             /\ best_fitness_history' =
                   Append(best_fitness_history, SeqMax(FitnessesNow))
             /\ worst_fitness_history' =
                   Append(worst_fitness_history, SeqMin(FitnessesNow))
             /\ avg_fitness_history' =
                   Append(avg_fitness_history,
                          <<SeqSum(FitnessesNow), Len(FitnessesNow)>>)]_vars

====
